---- MODULE Spec2Model ----
(***************************************************************************)
(* Model of main.cpp: the Shape / DrwManager classes, the Phone abstract   *)
(* factory classes, and the program's main().                              *)
(*                                                                         *)
(* Objects live in `heap`, a sequence of records; a handle                 *)
(* (std::shared_ptr) is an index into it, or Null.  Standard output is the *)
(* sequence of lines written so far.  Released objects stay in `heap`: the *)
(* destructors are trivial and write nothing.                              *)
(*                                                                         *)
(* main() is modelled statement by statement.  It uses only the phone      *)
(* classes; the shape classes and the factories are also driven directly,  *)
(* by a caller that constructs objects with arguments drawn from small     *)
(* sets and calls their public operations.  `entry` says which.            *)
(***************************************************************************)
EXTENDS Integers, Sequences, FiniteSets, TLC

VARIABLES
    entry,        \* which caller drives the classes: "main", "shapes", "phones"
    pc,           \* position of main()
    i,            \* main's loop variable
    man,          \* main's std::string man
    factory,      \* main's handles, declared inside the loop body
    smartphone,
    basicPhone,
    heap,         \* every object allocated by make_shared, in allocation order
    stdout,       \* the lines written to std::cout
    exitCode,     \* {} while the process runs, {code} once it has ended
    shapeList,    \* DrwManager::shapeList
    mgr,          \* DrwManager: "none", "constructed"
    it,           \* drawShapes' iterator position in shapeList, 0 outside a call
    drawCalls,    \* completed calls of drawShapes
    building,     \* the shape constructor call in progress: <<>> or <<[h, r]>>
    observed,     \* what the last GetType / getName call returned: <<>> or <<[h, value]>>
    calls         \* the factory calls the phone caller made: [factory, op, arg, result]

vars == <<entry, pc, i, man, factory, smartphone, basicPhone, heap, stdout,
          exitCode, shapeList, mgr, it, drawCalls, building, observed, calls>>

mainVars == <<pc, i, man, factory, smartphone, basicPhone, exitCode>>

------------------------------------------------------------------------------
(* Bounds of the model *)

\* shapes the shape caller constructs on its own
MaxShapes == 2
\* objects (factories and products) the phone caller allocates
MaxPhoneObjects == 3
\* calls of drawShapes the shape caller makes
MaxDraws == 2
\* an empty std::shared_ptr
Null == 0

\* name strings handed to the factories by the phone caller
Names == {"", "A", "Nokia Smartphone"}

\* sizes handed to the shape constructors by the shape caller
Sizes == {0 - 1, 0, 3}

------------------------------------------------------------------------------
(* Point, Shape, Circle, Square *)

Point(_x, _y) == [x |-> _x, y |-> _y]

\* Shape::Shape(Point c): the base part of an object of concrete class cls
Shape_ctor(cls, c) ==
    [cls |-> cls, center |-> c, type |-> "BaseFigure", size |-> 0, built |-> FALSE]

\* Circle::Circle with the assignment to type left out
Circle_body_noType(obj, r) ==
    [obj EXCEPT !.size = r, !.built = TRUE]

\* body of Circle::Circle, run on the object the base constructor left
Circle_body(obj, r) ==
    [obj EXCEPT !.size = r, !.type = "Circle", !.built = TRUE]

\* body of Square::Square
Square_body(obj, r) ==
    [obj EXCEPT !.size = r, !.type = "Square", !.built = TRUE]

Circle_ctor(cnt, r) == Circle_body(Shape_ctor("Circle", cnt), r)

Square_ctor(cnt, r) == Square_body(Shape_ctor("Square", cnt), r)

Shape_GetType(obj) == obj.type

Circle_Draw == "Draw Circle!"

Square_Draw == "Draw Square!"

\* shape->Draw(): virtual dispatch on the object's concrete class
Draw(obj) ==
    CASE obj.cls = "Circle" -> Circle_Draw
      [] obj.cls = "Square" -> Square_Draw

------------------------------------------------------------------------------
(* Phone products and factories *)

NokiaSmartphone_ctor(name) == [cls |-> "NokiaSmartphone", name |-> name]

NokiaBasicPhone_ctor(name) == [cls |-> "NokiaBasicPhone", name |-> name]

SamsungSmartphone_ctor(name) == [cls |-> "SamsungSmartphone", name |-> name]

SamsungBasicPhone_ctor(name) == [cls |-> "SamsungBasicPhone", name |-> name]

HTCSmartphone_ctor(name) == [cls |-> "HTCSmartphone", name |-> name]

\* a constructor that leaves the member name default-constructed
HTCBasicPhone_ctor_noStore(name) == [cls |-> "HTCBasicPhone", name |-> ""]

HTCBasicPhone_ctor(name) == [cls |-> "HTCBasicPhone", name |-> name]

\* getName returning something other than the stored name
Product_getName_cls(obj) == obj.cls

\* the six getName overrides are the same code: return name
Product_getName(obj) == obj.name

\* phone->getName(): virtual dispatch
getName(obj) ==
    CASE obj.cls = "NokiaSmartphone" -> Product_getName(obj)
      [] obj.cls = "NokiaBasicPhone" -> Product_getName(obj)
      [] obj.cls = "SamsungSmartphone" -> Product_getName(obj)
      [] obj.cls = "SamsungBasicPhone" -> Product_getName(obj)
      [] obj.cls = "HTCSmartphone" -> Product_getName(obj)
      [] obj.cls = "HTCBasicPhone" -> Product_getName(obj)

\* the direct base class of each class
BaseClass(cls) ==
    CASE cls \in {"NokiaSmartphone", "SamsungSmartphone", "HTCSmartphone"} -> "Smartphone"
      [] cls \in {"NokiaBasicPhone", "SamsungBasicPhone", "HTCBasicPhone"} -> "BasicPhone"
      [] cls \in {"Smartphone", "BasicPhone"} -> "Phone"
      [] cls \in {"NokiaFactory", "SamsungFactory", "HTCFactory"} -> "PhoneFactory"
      [] cls \in {"Circle", "Square"} -> "Shape"
      [] OTHER -> "none"

FactoryClasses == {"NokiaFactory", "SamsungFactory", "HTCFactory"}

Factory_ctor(cls) == [cls |-> cls]

NokiaFactory_createSmartphone(name) == NokiaSmartphone_ctor(name)

NokiaFactory_createBasicPhone(name) == NokiaBasicPhone_ctor(name)

\* a factory copied from NokiaFactory and not adapted
SamsungFactory_createSmartphone_copied(name) == NokiaSmartphone_ctor(name)

SamsungFactory_createSmartphone(name) == SamsungSmartphone_ctor(name)

SamsungFactory_createBasicPhone(name) == SamsungBasicPhone_ctor(name)

HTCFactory_createSmartphone(name) == HTCSmartphone_ctor(name)

HTCFactory_createBasicPhone(name) == HTCBasicPhone_ctor(name)

\* factory->createSmartphone(name): virtual dispatch on the factory's class
createSmartphone(f, name) ==
    CASE f.cls = "NokiaFactory" -> NokiaFactory_createSmartphone(name)
      [] f.cls = "SamsungFactory" -> SamsungFactory_createSmartphone(name)
      [] f.cls = "HTCFactory" -> HTCFactory_createSmartphone(name)

\* factory->createBasicPhone(name)
createBasicPhone(f, name) ==
    CASE f.cls = "NokiaFactory" -> NokiaFactory_createBasicPhone(name)
      [] f.cls = "SamsungFactory" -> SamsungFactory_createBasicPhone(name)
      [] f.cls = "HTCFactory" -> HTCFactory_createBasicPhone(name)

------------------------------------------------------------------------------
(* main *)

\* the loop condition off by one
LoopCond_offByOne(n) == n <= 3

\* the loop condition i < 3
LoopCond(n) == n < 3

\* the switch with the last label mistyped, so that i = 2 matches no case
SwitchCase_missing(n) ==
    CASE n = 0 -> "case0"
      [] n = 1 -> "case1"
      [] n = 3 -> "case2"
      [] OTHER -> "none"

\* the switch: the case label that matches i, "none" when no label does
SwitchCase(n) ==
    CASE n = 0 -> "case0"
      [] n = 1 -> "case1"
      [] n = 2 -> "case2"
      [] OTHER -> "none"

\* case 1 copied from case 0 with man left as it was
CaseBody_copied(label) ==
    CASE label = "case0" -> [factory |-> "NokiaFactory", smart |-> "Nokia Smartphone",
                             basic |-> "Nokia Basic Phone", man |-> "Nokia"]
      [] label = "case1" -> [factory |-> "SamsungFactory", smart |-> "Samsung Smartphone",
                             basic |-> "Samsung Basic Phone", man |-> "Nokia"]
      [] label = "case2" -> [factory |-> "HTCFactory", smart |-> "HTC Smartphone",
                             basic |-> "HTC Basic Phone", man |-> "HTC"]

\* what each case hands to make_shared, the two create calls and man
CaseBody(label) ==
    CASE label = "case0" -> [factory |-> "NokiaFactory", smart |-> "Nokia Smartphone",
                             basic |-> "Nokia Basic Phone", man |-> "Nokia"]
      [] label = "case1" -> [factory |-> "SamsungFactory", smart |-> "Samsung Smartphone",
                             basic |-> "Samsung Basic Phone", man |-> "Samsung"]
      [] label = "case2" -> [factory |-> "HTCFactory", smart |-> "HTC Smartphone",
                             basic |-> "HTC Basic Phone", man |-> "HTC"]

\* make_shared: the new object's handle is its place in allocation order
NewHandle == Len(heap) + 1

Init ==
    /\ entry \in {"main", "shapes", "phones"}
    /\ pc = "loop"
    /\ i = 0
    /\ man = ""
    /\ factory = Null
    /\ smartphone = Null
    /\ basicPhone = Null
    /\ heap = <<>>
    /\ stdout = <<>>
    /\ exitCode = {}
    /\ shapeList = <<>>
    /\ mgr = "none"
    /\ it = 0
    /\ drawCalls = 0
    /\ building = <<>>
    /\ observed = <<>>
    /\ calls = <<>>

\* for (...; i < 3; ...)
MainLoopTest ==
    /\ entry = "main" /\ pc = "loop"
    /\ pc' = IF LoopCond(i) THEN "decl" ELSE "return"
    /\ UNCHANGED <<entry, i, man, factory, smartphone, basicPhone, heap, stdout,
                   exitCode, shapeList, mgr, it, drawCalls, building, observed, calls>>

\* the three handles are declared, empty, at the top of every iteration
MainDecl ==
    /\ entry = "main" /\ pc = "decl"
    /\ factory' = Null
    /\ smartphone' = Null
    /\ basicPhone' = Null
    /\ pc' = "switch"
    /\ UNCHANGED <<entry, i, man, heap, stdout, exitCode, shapeList, mgr, it,
                   drawCalls, building, observed, calls>>

\* switch (i): jump to the matching case, or past the switch when none matches
MainSwitch ==
    /\ entry = "main" /\ pc = "switch"
    /\ pc' = IF SwitchCase(i) = "none" THEN "print_man" ELSE "make_factory"
    /\ UNCHANGED <<entry, i, man, factory, smartphone, basicPhone, heap, stdout,
                   exitCode, shapeList, mgr, it, drawCalls, building, observed, calls>>

\* factory = std::make_shared<XFactory>()
MainMakeFactory ==
    /\ entry = "main" /\ pc = "make_factory"
    /\ heap' = Append(heap, Factory_ctor(CaseBody(SwitchCase(i)).factory))
    /\ factory' = NewHandle
    /\ pc' = "create_smart"
    /\ UNCHANGED <<entry, i, man, smartphone, basicPhone, stdout, exitCode,
                   shapeList, mgr, it, drawCalls, building, observed, calls>>

\* smartphone = factory->createSmartphone("X Smartphone")
MainCreateSmartphone ==
    /\ entry = "main" /\ pc = "create_smart"
    /\ heap' = Append(heap, createSmartphone(heap[factory], CaseBody(SwitchCase(i)).smart))
    /\ smartphone' = NewHandle
    /\ pc' = "create_basic"
    /\ UNCHANGED <<entry, i, man, factory, basicPhone, stdout, exitCode,
                   shapeList, mgr, it, drawCalls, building, observed, calls>>

\* basicPhone = factory->createBasicPhone("X Basic Phone")
MainCreateBasicPhone ==
    /\ entry = "main" /\ pc = "create_basic"
    /\ heap' = Append(heap, createBasicPhone(heap[factory], CaseBody(SwitchCase(i)).basic))
    /\ basicPhone' = NewHandle
    /\ pc' = "set_man"
    /\ UNCHANGED <<entry, i, man, factory, smartphone, stdout, exitCode,
                   shapeList, mgr, it, drawCalls, building, observed, calls>>

\* man = "X"; break
MainSetMan ==
    /\ entry = "main" /\ pc = "set_man"
    /\ man' = CaseBody(SwitchCase(i)).man
    /\ pc' = "print_man"
    /\ UNCHANGED <<entry, i, factory, smartphone, basicPhone, heap, stdout,
                   exitCode, shapeList, mgr, it, drawCalls, building, observed, calls>>

\* std::cout << "Manufacturer: " << man << "\n"
MainPrintManufacturer ==
    /\ entry = "main" /\ pc = "print_man"
    /\ stdout' = Append(stdout, "Manufacturer: " \o man)
    /\ pc' = "print_smart"
    /\ UNCHANGED <<entry, i, man, factory, smartphone, basicPhone, heap,
                   exitCode, shapeList, mgr, it, drawCalls, building, observed, calls>>

\* A call through an empty shared_ptr is undefined: the process is killed, or
\* the call reads whatever it finds and goes on.
NullCall(label, next) ==
    \/ /\ pc' = "crashed"
       /\ exitCode' = {139}
       /\ stdout' = stdout
    \/ \E garbage \in Names :
         /\ stdout' = Append(stdout, label \o garbage)
         /\ pc' = next
         /\ exitCode' = exitCode

\* std::cout << "Smarphone: " << smartphone->getName() << "\n"
MainPrintSmartphone ==
    /\ entry = "main" /\ pc = "print_smart"
    /\ IF smartphone = Null
         THEN NullCall("Smarphone: ", "print_basic")
         ELSE /\ stdout' = Append(stdout, "Smarphone: " \o getName(heap[smartphone]))
              /\ pc' = "print_basic"
              /\ exitCode' = exitCode
    /\ UNCHANGED <<entry, i, man, factory, smartphone, basicPhone, heap,
                   shapeList, mgr, it, drawCalls, building, observed, calls>>

\* std::cout << "Basic phone: " << basicPhone->getName() << "\n"
MainPrintBasicPhone ==
    /\ entry = "main" /\ pc = "print_basic"
    /\ IF basicPhone = Null
         THEN NullCall("Basic phone: ", "scope_exit")
         ELSE /\ stdout' = Append(stdout, "Basic phone: " \o getName(heap[basicPhone]))
              /\ pc' = "scope_exit"
              /\ exitCode' = exitCode
    /\ UNCHANGED <<entry, i, man, factory, smartphone, basicPhone, heap,
                   shapeList, mgr, it, drawCalls, building, observed, calls>>

\* end of the loop body: the three handles go out of scope
MainScopeExit ==
    /\ entry = "main" /\ pc = "scope_exit"
    /\ factory' = Null
    /\ smartphone' = Null
    /\ basicPhone' = Null
    /\ pc' = "incr"
    /\ UNCHANGED <<entry, i, man, heap, stdout, exitCode, shapeList, mgr, it,
                   drawCalls, building, observed, calls>>

\* ++i
MainIncr ==
    /\ entry = "main" /\ pc = "incr"
    /\ i' = i + 1
    /\ pc' = "loop"
    /\ UNCHANGED <<entry, man, factory, smartphone, basicPhone, heap, stdout,
                   exitCode, shapeList, mgr, it, drawCalls, building, observed, calls>>

\* return 0
MainReturn ==
    /\ entry = "main" /\ pc = "return"
    /\ exitCode' = {0}
    /\ pc' = "done"
    /\ UNCHANGED <<entry, i, man, factory, smartphone, basicPhone, heap, stdout,
                   shapeList, mgr, it, drawCalls, building, observed, calls>>

------------------------------------------------------------------------------
(* DrwManager and a caller of the shape classes *)

\* center points handed to the shape constructors by the shape caller
Centers == {Point(0, 0), Point(0 - 1, 2)}

\* the two push_back calls in the other order
DrwManager_shapes_swapped ==
    LET p == Point(0, 0)
    IN  <<Circle_ctor(p, 3), Square_ctor(p, 3)>>

\* the shapes DrwManager::DrwManager pushes onto shapeList, in push order
DrwManager_shapes ==
    LET p == Point(0, 0)
    IN  <<Square_ctor(p, 3), Circle_ctor(p, 3)>>

\* a loop that starts at the second element
IterBegin_second == 1 + 1

\* a loop that advances twice per pass
IterNext_skip(k) == k + 2

\* the range-for of drawShapes: where it starts and how it advances
IterBegin == 1

IterNext(k) == k + 1

IterAtEnd(k) == k > Len(shapeList)

\* handles of the shapes the caller constructed itself
OwnShapes == {h \in 1..Len(heap) : \A k \in 1..Len(shapeList) : shapeList[k] # h}

ShapeIdle == entry = "shapes" /\ building = <<>> /\ it = 0

\* DrwManager mgr;
DrwManager_ctor ==
    /\ ShapeIdle /\ mgr = "none"
    /\ heap' = heap \o DrwManager_shapes
    /\ shapeList' = [k \in 1..Len(DrwManager_shapes) |-> Len(heap) + k]
    /\ mgr' = "constructed"
    /\ UNCHANGED <<entry, stdout, it, drawCalls, building, observed, calls>>
    /\ UNCHANGED mainVars

\* mgr.drawShapes(): entering the loop
DrawShapesBegin ==
    /\ ShapeIdle /\ mgr = "constructed" /\ drawCalls < MaxDraws
    /\ it' = IterBegin
    /\ UNCHANGED <<entry, heap, stdout, shapeList, mgr, drawCalls, building,
                   observed, calls>>
    /\ UNCHANGED mainVars

\* one pass of the loop body: shape->Draw()
DrawShapesVisit ==
    /\ entry = "shapes" /\ it # 0 /\ ~IterAtEnd(it)
    /\ stdout' = Append(stdout, Draw(heap[shapeList[it]]))
    /\ it' = IterNext(it)
    /\ UNCHANGED <<entry, heap, shapeList, mgr, drawCalls, building, observed, calls>>
    /\ UNCHANGED mainVars

\* the loop ends and drawShapes returns
DrawShapesEnd ==
    /\ entry = "shapes" /\ it # 0 /\ IterAtEnd(it)
    /\ it' = 0
    /\ drawCalls' = drawCalls + 1
    /\ UNCHANGED <<entry, heap, stdout, shapeList, mgr, building, observed, calls>>
    /\ UNCHANGED mainVars

\* Circle(cnt, r) or Square(cnt, r) is called: the base constructor Shape(cnt) runs
ShapeBaseCtor(cls, cnt, r) ==
    /\ ShapeIdle /\ Cardinality(OwnShapes) < MaxShapes
    /\ heap' = Append(heap, Shape_ctor(cls, cnt))
    /\ building' = <<[h |-> NewHandle, r |-> r]>>
    /\ UNCHANGED <<entry, stdout, shapeList, mgr, it, drawCalls, observed, calls>>
    /\ UNCHANGED mainVars

\* then the body of the concrete class's constructor
ShapeDerivedCtor ==
    /\ entry = "shapes" /\ building # <<>>
    /\ LET h == building[1].h
           r == building[1].r
       IN  heap' = [heap EXCEPT ![h] = IF heap[h].cls = "Circle"
                                         THEN Circle_body(heap[h], r)
                                         ELSE Square_body(heap[h], r)]
    /\ building' = <<>>
    /\ UNCHANGED <<entry, stdout, shapeList, mgr, it, drawCalls, observed, calls>>
    /\ UNCHANGED mainVars

\* shape.GetType() on a constructed shape
CallGetType(h) ==
    /\ ShapeIdle
    /\ observed' = <<[h |-> h, value |-> Shape_GetType(heap[h])]>>
    /\ observed' # observed
    /\ UNCHANGED <<entry, heap, stdout, shapeList, mgr, it, drawCalls, building, calls>>
    /\ UNCHANGED mainVars

ShapeStep ==
    \/ DrwManager_ctor
    \/ DrawShapesBegin
    \/ DrawShapesVisit
    \/ DrawShapesEnd
    \/ \E cls \in {"Circle", "Square"}, cnt \in Centers, r \in Sizes :
         ShapeBaseCtor(cls, cnt, r)
    \/ ShapeDerivedCtor
    \/ \E h \in OwnShapes : CallGetType(h)

------------------------------------------------------------------------------
(* A caller of the factories *)

Factories == {h \in 1..Len(heap) : heap[h].cls \in FactoryClasses}

Products == {h \in 1..Len(heap) : heap[h].cls \notin FactoryClasses}

\* std::make_shared<XFactory>()
PhoneMakeFactory(cls) ==
    /\ entry = "phones" /\ Len(heap) < MaxPhoneObjects
    /\ heap' = Append(heap, Factory_ctor(cls))
    /\ UNCHANGED <<entry, stdout, shapeList, mgr, it, drawCalls, building,
                   observed, calls>>
    /\ UNCHANGED mainVars

\* f->createSmartphone(name)
PhoneCreateSmartphone(f, name) ==
    /\ entry = "phones" /\ Len(heap) < MaxPhoneObjects
    /\ heap' = Append(heap, createSmartphone(heap[f], name))
    /\ calls' = Append(calls, [factory |-> f, op |-> "createSmartphone",
                               arg |-> name, result |-> NewHandle])
    /\ UNCHANGED <<entry, stdout, shapeList, mgr, it, drawCalls, building, observed>>
    /\ UNCHANGED mainVars

\* f->createBasicPhone(name)
PhoneCreateBasicPhone(f, name) ==
    /\ entry = "phones" /\ Len(heap) < MaxPhoneObjects
    /\ heap' = Append(heap, createBasicPhone(heap[f], name))
    /\ calls' = Append(calls, [factory |-> f, op |-> "createBasicPhone",
                               arg |-> name, result |-> NewHandle])
    /\ UNCHANGED <<entry, stdout, shapeList, mgr, it, drawCalls, building, observed>>
    /\ UNCHANGED mainVars

\* p->getName()
PhoneGetName(h) ==
    /\ entry = "phones"
    /\ observed' = <<[h |-> h, value |-> getName(heap[h])]>>
    /\ observed' # observed
    /\ UNCHANGED <<entry, heap, stdout, shapeList, mgr, it, drawCalls, building, calls>>
    /\ UNCHANGED mainVars

PhoneStep ==
    \/ \E cls \in FactoryClasses : PhoneMakeFactory(cls)
    \/ \E f \in Factories, name \in Names : PhoneCreateSmartphone(f, name)
    \/ \E f \in Factories, name \in Names : PhoneCreateBasicPhone(f, name)
    \/ \E h \in Products : PhoneGetName(h)

------------------------------------------------------------------------------

MainStep ==
    \/ MainLoopTest
    \/ MainDecl
    \/ MainSwitch
    \/ MainMakeFactory
    \/ MainCreateSmartphone
    \/ MainCreateBasicPhone
    \/ MainSetMan
    \/ MainPrintManufacturer
    \/ MainPrintSmartphone
    \/ MainPrintBasicPhone
    \/ MainScopeExit
    \/ MainIncr
    \/ MainReturn

Next ==
    \/ MainStep
    \/ ShapeStep
    \/ PhoneStep

Spec == Init /\ [][Next]_vars

FairSpec == Spec /\ WF_vars(MainStep)

------------------------------------------------------------------------------
(* Properties *)

ExpectedMainOutput ==
    << "Manufacturer: Nokia", "Smarphone: Nokia Smartphone", "Basic phone: Nokia Basic Phone",
       "Manufacturer: Samsung", "Smarphone: Samsung Smartphone", "Basic phone: Samsung Basic Phone",
       "Manufacturer: HTC", "Smarphone: HTC Smartphone", "Basic phone: HTC Basic Phone" >>

MainBodyLabels ==
    {"decl", "switch", "make_factory", "create_smart", "create_basic", "set_man",
     "print_man", "print_smart", "print_basic", "scope_exit", "incr"}

\* C1: when main has returned, standard output holds exactly the nine lines
\* Manufacturer / Smarphone / Basic phone for Nokia, Samsung, HTC, in that
\* order, each block carrying its own manufacturer's names; it never holds
\* more than nine lines.
C1_NineLines ==
    entry = "main" =>
        /\ Len(stdout) <= 9
        /\ pc = "done" => stdout = ExpectedMainOutput

C1_Witness == entry = "main" /\ pc = "done" /\ Len(stdout) = 9

\* C2: a DrwManager's first drawShapes call writes "Draw Square!" then
\* "Draw Circle!" and nothing else: at iterator position it the shapes before
\* it have each been visited once, in list order, and each wrote the line of
\* its own class.
C2_DrawOnce ==
    (entry = "shapes" /\ mgr = "constructed") =>
        /\ (drawCalls = 0 /\ it = 0) => stdout = <<>>
        /\ (drawCalls = 0 /\ it # 0) =>
              /\ Len(stdout) = it - 1
              /\ \A k \in 1..Len(stdout) :
                    stdout[k] = "Draw " \o heap[shapeList[k]].cls \o "!"
        /\ (drawCalls = 1 /\ it = 0) => stdout = <<"Draw Square!", "Draw Circle!">>

C2_Witness ==
    /\ entry = "shapes" /\ drawCalls = 1 /\ it = 0
    /\ stdout = <<"Draw Square!", "Draw Circle!">>

\* C3: for every create call the phone caller made, with any factory, either
\* operation and any name N (the empty string included), getName on the
\* returned product is N in every later state, and every value a getName call
\* returned is the N its product was created with.
C3_NamePassthrough ==
    entry = "phones" =>
        /\ \A k \in 1..Len(calls) : getName(heap[calls[k].result]) = calls[k].arg
        /\ \A o \in 1..Len(observed) : \A k \in 1..Len(calls) :
              calls[k].result = observed[o].h => observed[o].value = calls[k].arg

C3_Witness ==
    /\ entry = "phones" /\ observed # <<>>
    /\ observed[1].value = ""
    /\ \E k \in 1..Len(calls) :
          /\ calls[k].result = observed[1].h
          /\ calls[k].arg = ""
          /\ heap[calls[k].factory].cls = "HTCFactory"
          /\ calls[k].op = "createBasicPhone"

\* C4: after two drawShapes calls standard output is the two lines twice, in
\* the same order, and no step changes the shape list of a constructed
\* manager: its length, its order, the handles in it, the shapes they name.
C4_DrawTwice ==
    /\ [](entry = "shapes" /\ drawCalls = 2 /\ it = 0 =>
            stdout = <<"Draw Square!", "Draw Circle!", "Draw Square!", "Draw Circle!">>)
    /\ [][mgr = "constructed" =>
            /\ shapeList' = shapeList
            /\ \A k \in 1..Len(shapeList) : heap'[shapeList[k]] = heap[shapeList[k]]]_vars

C4_Witness ==
    /\ entry = "shapes" /\ drawCalls = 2 /\ it = 0
    /\ Len(stdout) = 4 /\ Len(shapeList) = 2

\* the concrete product classes of each factory class, by family
ProductOf(fcls, family) ==
    CASE fcls = "NokiaFactory" /\ family = "Smartphone" -> "NokiaSmartphone"
      [] fcls = "NokiaFactory" /\ family = "BasicPhone" -> "NokiaBasicPhone"
      [] fcls = "SamsungFactory" /\ family = "Smartphone" -> "SamsungSmartphone"
      [] fcls = "SamsungFactory" /\ family = "BasicPhone" -> "SamsungBasicPhone"
      [] fcls = "HTCFactory" /\ family = "Smartphone" -> "HTCSmartphone"
      [] fcls = "HTCFactory" /\ family = "BasicPhone" -> "HTCBasicPhone"

\* C5: createSmartphone returns a product whose base class is Smartphone,
\* createBasicPhone one whose base class is BasicPhone, each the class of the
\* called factory's own manufacturer; two products of one factory made by the
\* two operations differ in class, whatever their names.
C5_Families ==
    entry = "phones" =>
        /\ \A k \in 1..Len(calls) :
              LET family == IF calls[k].op = "createSmartphone"
                              THEN "Smartphone" ELSE "BasicPhone"
                  cls == heap[calls[k].result].cls
              IN  /\ BaseClass(cls) = family
                  /\ BaseClass(BaseClass(cls)) = "Phone"
                  /\ cls = ProductOf(heap[calls[k].factory].cls, family)
        /\ \A j, k \in 1..Len(calls) :
              (calls[j].factory = calls[k].factory /\ calls[j].op # calls[k].op) =>
                  heap[calls[j].result].cls # heap[calls[k].result].cls

C5_Witness ==
    /\ entry = "phones"
    /\ \E j, k \in 1..Len(calls) :
          /\ calls[j].factory = calls[k].factory
          /\ calls[j].op = "createSmartphone" /\ calls[k].op = "createBasicPhone"
          /\ calls[j].arg = calls[k].arg
          /\ heap[calls[j].factory].cls = "SamsungFactory"

\* C6: every shape whose constructor has returned, whatever its center and
\* size, answers GetType with the label of its concrete class, "Circle" or
\* "Square", never "BaseFigure"; so does every value a GetType call returned.
C6_TypeLabel ==
    entry = "shapes" =>
        /\ \A h \in 1..Len(heap) :
              heap[h].built =>
                  /\ Shape_GetType(heap[h]) = heap[h].cls
                  /\ Shape_GetType(heap[h]) \in {"Circle", "Square"}
        /\ \A o \in 1..Len(observed) : observed[o].value = heap[observed[o].h].cls

C6_Witness ==
    /\ entry = "shapes" /\ observed # <<>>
    /\ observed[1].value = "Circle"
    /\ heap[observed[1].h].size < 0
    /\ heap[observed[1].h].center # Point(0, 0)

\* C7: a constructed DrwManager holds exactly two shapes, a Square and then a
\* Circle, both with center (0, 0) and size 3, in every state after its
\* construction.
C7_TwoShapes ==
    mgr = "constructed" =>
        /\ Len(shapeList) = 2
        /\ shapeList[1] # shapeList[2]
        /\ heap[shapeList[1]].cls = "Square"
        /\ heap[shapeList[2]].cls = "Circle"
        /\ \A k \in 1..2 :
              /\ heap[shapeList[k]].center = [x |-> 0, y |-> 0]
              /\ heap[shapeList[k]].size = 3
              /\ heap[shapeList[k]].built

C7_Witness ==
    /\ mgr = "constructed" /\ drawCalls = MaxDraws /\ it = 0
    /\ Cardinality(OwnShapes) = MaxShapes

C9_Terminates ==
    /\ [](entry = "main" =>
            /\ exitCode \subseteq {0}
            /\ pc \in MainBodyLabels => i \in 0..2
            /\ pc = "done" => (i = 3 /\ exitCode = {0}))
    /\ ((entry = "main") ~> (pc = "done"))

C9_Witness == entry = "main" /\ pc = "done" /\ i = 3 /\ exitCode = {0}

\* C10: when main is at one of its three print statements, factory,
\* smartphone and basicPhone are all non-empty, were allocated in the current
\* iteration (after the three objects of each earlier one), the factory is
\* the one of index i (0 Nokia, 1 Samsung, 2 HTC) and the two products are
\* that factory's.
C10_HandlesSet ==
    (entry = "main" /\ pc \in {"print_man", "print_smart", "print_basic"}) =>
        /\ factory # Null /\ smartphone # Null /\ basicPhone # Null
        /\ {factory, smartphone, basicPhone} = (3 * i + 1)..(3 * i + 3)
        /\ heap[factory].cls =
              (CASE i = 0 -> "NokiaFactory" [] i = 1 -> "SamsungFactory"
                 [] i = 2 -> "HTCFactory" [] OTHER -> "none")
        /\ heap[smartphone].cls = ProductOf(heap[factory].cls, "Smartphone")
        /\ heap[basicPhone].cls = ProductOf(heap[factory].cls, "BasicPhone")

C10_Witness ==
    /\ entry = "main" /\ pc = "print_basic" /\ i = 2
    /\ factory # Null /\ smartphone # Null /\ basicPhone # Null
    /\ Len(stdout) = 8

====
